---- MODULE Spec2Model ----
(***************************************************************************)
(* Model of the startup-interview flow bot.                                *)
(*                                                                         *)
(*   src/flows/interview_flow.py   InterviewData, the function handlers,   *)
(*                                 the transition callbacks, the node      *)
(*                                 factories                               *)
(*   src/handlers/event_handlers.py  the Daily transport event handlers    *)
(*                                                                         *)
(* FlowManager and PipelineTask are objects of the pipecat libraries; the  *)
(* model holds exactly the fields and calls the repository's code uses:    *)
(* flow_manager.initialize(), flow_manager.set_node(id, config),           *)
(* flow_manager.state[...], flow_manager.current_node and task.cancel().   *)
(* The repository's code holds no check of the current node, of the        *)
(* initialized flag, of the ended flag or of the cancelled flag before it  *)
(* writes, so the model's guards hold none either.                         *)
(***************************************************************************)
EXTENDS Naturals, Sequences, FiniteSets, TLC

\* Number of distinct non-empty strings the language model may supply.
MaxStrings == 2

NonEmpty == {ToString(i) : i \in 1..MaxStrings}

\* The string values of the model; "" is Python's empty string.
Strings == {""} \cup NonEmpty

\* Markers for "no value" (a Python name that is unbound, a dict key that
\* is absent, a variable nothing has written yet).
Absent == "<absent>"
NoCall == [fn |-> "<none>"]
NoEvent == [handler |-> "<none>"]
NoData == [source |-> "<none>"]
NoResult == [none |-> TRUE]
NoConfig == [none |-> TRUE]
NoFrame == [type |-> "<none>"]
NoPush == [function |-> "<none>"]
Off == <<[ev |-> "off"]>>

Participants == {"p1"}
Reasons == {"leftCall"}

NodeIds == {"initial", "startup_history", "summary", "end"}
FunctionNames == {"collect_name", "collect_startup_history", "end_call"}

\* FlowArgs: the dictionary of arguments of one function call.  The schema
\* of a node names the required key; nothing in the repository enforces it,
\* so a call may carry no key, the "name" key or the "startup_history" key.
EmptyArgs == [k \in {} |-> ""]
ArgsSet == {EmptyArgs}
             \cup {[name |-> s] : s \in Strings}
             \cup {[startup_history |-> s] : s \in Strings}

\* Transport errors: str(error) of the first holds "AlreadyInCall".
AlreadyInCallErrors == {"AlreadyInCall: room occupied"}
Errors == AlreadyInCallErrors \cup {"connection lost"}

VARIABLES
    interview_data,   \* the module-global InterviewData instance
    fm_initialized,   \* flow_manager: initialize() has been called
    current_node,     \* flow_manager.current_node ("none" before set_node)
    node_config,      \* the NodeConfig last given to set_node
    registered,       \* function names the runtime has been handed so far
    fm_state,         \* flow_manager.state
    post_actions,     \* post-actions of the active node not yet executed
    ended,            \* the end_conversation post-action has fired
    pending,          \* function call between its handler and its callback
    lastCall,         \* the most recent function call and how it ended
    lastEvent,        \* the most recent transport event and how it ended
    emitted,          \* the most recent data snapshot logged and printed
    transcription,    \* participant ids whose transcription is captured
    task_cancelled,   \* task.cancel() has been called
    run,              \* the events so far, while they follow the interview
    rtvi_push,        \* the most recent push_rtvi_data: frame queued, log line
    replaced          \* the instance interview_data named before the last reset

vars == <<interview_data, fm_initialized, current_node, node_config,
          registered, fm_state, post_actions, ended, pending, lastCall,
          lastEvent, emitted, transcription, task_cancelled, run,
          rtvi_push, replaced>>

----
\* InterviewData

\* InterviewData.__init__
NewInterviewData == [name |-> "", startup_history |-> ""]

\* to_dict with a filter that drops the fields still empty.
to_dict_DropsEmpty(d) ==
    [k \in {f \in {"name", "startup_history"} : d[f] # ""} |-> d[k]]

\* InterviewData.to_dict
to_dict(d) == [name |-> d.name, startup_history |-> d.startup_history]

\* Python truthiness of a string.
Truthy(s) == s # ""

\* is_complete with "or" in place of "and".
is_complete_Or(d) == Truthy(IF Truthy(d.name) THEN d.name ELSE d.startup_history)

\* InterviewData.is_complete: bool(self.name and self.startup_history)
is_complete(d) == Truthy(IF Truthy(d.name) THEN d.startup_history ELSE d.name)

\* The expression  x or 'Not provided'
OrNotProvided(x) == IF Truthy(x) THEN x ELSE "Not provided"

\* get_interview_data
get_interview_data == interview_data

----
\* Node factories

create_initial_node ==
    [role_messages |-> <<"friendly interviewer, speech-safe responses">>,
     task_messages |-> <<"greet the user and ask for their name">>,
     functions |-> <<[name |-> "collect_name",
                      handler |-> "collect_name",
                      required |-> <<"name">>,
                      transition_callback |-> "handle_name_collection"]>>,
     post_actions |-> <<>>]

create_startup_history_node ==
    [role_messages |-> <<>>,
     task_messages |-> <<"ask about their startup history">>,
     functions |-> <<[name |-> "collect_startup_history",
                      handler |-> "collect_startup_history",
                      required |-> <<"startup_history">>,
                      transition_callback |-> "handle_startup_history_collection"]>>,
     post_actions |-> <<>>]

create_summary_node ==
    [role_messages |-> <<>>,
     task_messages |-> <<"thank the user, summarize, ask for anything to add">>,
     functions |-> <<[name |-> "end_call",
                      handler |-> "end_call",
                      required |-> <<>>,
                      transition_callback |-> "handle_end_call"]>>,
     post_actions |-> <<>>]

create_end_node ==
    [role_messages |-> <<>>,
     task_messages |-> <<"final thank you, information has been recorded">>,
     functions |-> <<>>,
     post_actions |-> <<"end_conversation">>]

\* The function names a node configuration declares.
Declared(config) == {config.functions[i].name : i \in 1..Len(config.functions)}

----
\* The events of a session, as the run records them.
JoinEv == [ev |-> "join"]
CallEv(fn, args) == [ev |-> "call", fn |-> fn, args |-> args]
TransitionEv == [ev |-> "transition"]
LeftEv == [ev |-> "left"]
ErrorEv == [ev |-> "error"]

\* The interview as the node graph lays it out: a join, then each node's
\* declared function called once with its required argument, each followed
\* by its transition callback.
InterviewRun(n, h) ==
    <<JoinEv,
      CallEv("collect_name", [name |-> n]), TransitionEv,
      CallEv("collect_startup_history", [startup_history |-> h]), TransitionEv,
      CallEv("end_call", EmptyArgs), TransitionEv>>

IsPrefix(s, t) == Len(s) <= Len(t) /\ \A i \in 1..Len(s) : s[i] = t[i]

FollowsInterview(s) ==
    \E n \in NonEmpty, h \in NonEmpty : IsPrefix(s, InterviewRun(n, h))

\* run is history only: it is kept while the events follow the interview
\* and is Off from the first event that departs from it.
Record(e) ==
    run' = IF run # Off /\ FollowsInterview(Append(run, e))
           THEN Append(run, e) ELSE Off

----
\* FlowManager, as the repository's code uses it

\* flow_manager.initialize()
initialize == fm_initialized' = TRUE

\* flow_manager.set_node(node_id, node_config): the node becomes the
\* current node, its functions are handed to the runtime and its
\* post-actions are queued.
set_node(node_id, config) ==
    /\ current_node' = node_id
    /\ node_config' = config
    /\ registered' = registered \cup Declared(config)
    /\ post_actions' = config.post_actions

\* task.cancel()
cancel == task_cancelled' = TRUE

----
\* Function handlers.  Each either returns a result, which the runtime
\* then hands to the function's transition callback, or raises, and then
\* there is no result to hand on.

Returned(fn, args, result) ==
    /\ pending' = [fn |-> fn, args |-> args, result |-> result]
    /\ lastCall' = [fn |-> fn, args |-> args, node |-> current_node,
                    outcome |-> "returned", result |-> result, error |-> ""]

Raised(fn, args, error) ==
    /\ pending' = NoCall
    /\ lastCall' = [fn |-> fn, args |-> args, node |-> current_node,
                    outcome |-> "raised", result |-> NoResult, error |-> error]

\* collect_name keeping a name already collected.
collect_name_KeepsFirst(args) ==
    IF "name" \in DOMAIN args
    THEN /\ interview_data' =
                IF interview_data.name = ""
                THEN [interview_data EXCEPT !.name = args.name]
                ELSE interview_data
         /\ Returned("collect_name", args, [name |-> args.name])
         /\ UNCHANGED <<emitted, replaced>>
    ELSE /\ Raised("collect_name", args, "KeyError")
         /\ UNCHANGED <<interview_data, emitted, replaced>>

\* collect_name writing to the instance the module was loaded with, also
\* after reset_interview_data has bound the global to a new one.
collect_name_WritesFirstInstance(args) ==
    IF "name" \in DOMAIN args
    THEN /\ IF replaced = NoData
            THEN /\ interview_data' = [interview_data EXCEPT !.name = args.name]
                 /\ UNCHANGED replaced
            ELSE /\ replaced' = [replaced EXCEPT !.name = args.name]
                 /\ UNCHANGED interview_data
         /\ Returned("collect_name", args, [name |-> args.name])
         /\ UNCHANGED emitted
    ELSE /\ Raised("collect_name", args, "KeyError")
         /\ UNCHANGED <<interview_data, emitted, replaced>>

collect_name(args) ==
    IF "name" \in DOMAIN args
    THEN /\ interview_data' = [interview_data EXCEPT !.name = args.name]
         /\ Returned("collect_name", args, [name |-> args.name])
         /\ UNCHANGED <<emitted, replaced>>
    ELSE /\ Raised("collect_name", args, "KeyError")
         /\ UNCHANGED <<interview_data, emitted, replaced>>

\* collect_startup_history storing into the name field.
collect_startup_history_WritesName(args) ==
    IF "startup_history" \in DOMAIN args
    THEN /\ interview_data' =
                [interview_data EXCEPT !.name = args.startup_history]
         /\ Returned("collect_startup_history", args,
                     [startup_history |-> args.startup_history])
         /\ UNCHANGED <<emitted, replaced>>
    ELSE /\ Raised("collect_startup_history", args, "KeyError")
         /\ UNCHANGED <<interview_data, emitted, replaced>>

collect_startup_history(args) ==
    IF "startup_history" \in DOMAIN args
    THEN /\ interview_data' =
                [interview_data EXCEPT !.startup_history = args.startup_history]
         /\ Returned("collect_startup_history", args,
                     [startup_history |-> args.startup_history])
         /\ UNCHANGED <<emitted, replaced>>
    ELSE /\ Raised("collect_startup_history", args, "KeyError")
         /\ UNCHANGED <<interview_data, emitted, replaced>>

\* end_call clearing the data once it has printed the summary.
end_call_ClearsData(args) ==
    LET data == to_dict(interview_data) IN
    /\ emitted' = [source |-> "end_call", data |-> data,
                   printed |-> [name |-> OrNotProvided(interview_data.name),
                                startup_history |->
                                    OrNotProvided(interview_data.startup_history)]]
    /\ Returned("end_call", args, [status |-> "completed"])
    /\ interview_data' = NewInterviewData
    /\ UNCHANGED replaced

end_call(args) ==
    LET data == to_dict(interview_data) IN
    /\ emitted' = [source |-> "end_call", data |-> data,
                   printed |-> [name |-> OrNotProvided(interview_data.name),
                                startup_history |->
                                    OrNotProvided(interview_data.startup_history)]]
    /\ Returned("end_call", args, [status |-> "completed"])
    /\ UNCHANGED <<interview_data, replaced>>

\* The runtime calls a handler it has been handed in a node's "functions";
\* function calls of one session are serialized.
FunctionCalled(fn, args) ==
    /\ fn \in registered
    /\ pending = NoCall
    /\ CASE fn = "collect_name" -> collect_name(args)
         [] fn = "collect_startup_history" -> collect_startup_history(args)
         [] fn = "end_call" -> end_call(args)
    /\ Record(CallEv(fn, args))
    /\ UNCHANGED <<fm_initialized, current_node, node_config, registered,
                   fm_state, post_actions, ended, lastEvent, transcription,
                   task_cancelled, rtvi_push>>

----
\* Transition callbacks

handle_name_collection(args, result) ==
    /\ fm_state' = [fm_state EXCEPT !.name = result.name]
    /\ set_node("startup_history", create_startup_history_node)

handle_startup_history_collection(args, result) ==
    /\ fm_state' = [fm_state EXCEPT !.startup_history = result.startup_history]
    /\ set_node("summary", create_summary_node)

handle_end_call(args, result) ==
    /\ fm_state' = fm_state
    /\ set_node("end", create_end_node)

\* The runtime hands the result of the call in flight to the transition
\* callback the function was declared with.
Transition ==
    /\ pending # NoCall
    /\ CASE pending.fn = "collect_name" ->
                handle_name_collection(pending.args, pending.result)
         [] pending.fn = "collect_startup_history" ->
                handle_startup_history_collection(pending.args, pending.result)
         [] pending.fn = "end_call" ->
                handle_end_call(pending.args, pending.result)
    /\ pending' = NoCall
    /\ Record(TransitionEv)
    /\ UNCHANGED <<interview_data, fm_initialized, ended, lastCall, lastEvent,
                   emitted, transcription, task_cancelled, rtvi_push,
                   replaced>>

\* The runtime executes the queued post-action of the active node.
PostAction ==
    /\ post_actions # <<>>
    /\ Head(post_actions) = "end_conversation"
    /\ ended' = TRUE
    /\ post_actions' = Tail(post_actions)
    /\ UNCHANGED <<interview_data, fm_initialized, current_node, node_config,
                   registered, fm_state, pending, lastCall, lastEvent, emitted,
                   transcription, task_cancelled, run, rtvi_push,
                   replaced>>

----
\* Transport event handlers (class EventHandlers)

\* A handler that has run to its end; calls are the calls it has awaited
\* on the transport, the flow manager and the task, in the order it made
\* them.
Completed(handler, arg, warned, cancelled, calls) ==
    lastEvent' = [handler |-> handler, arg |-> arg, outcome |-> "completed",
                  warned |-> warned, cancel_called |-> cancelled,
                  calls |-> calls]

\* on_first_participant_joined setting the node before it initializes the
\* flow manager and captures the transcription.
on_first_participant_joined_SetNodeFirst(participant) ==
    /\ set_node("initial", create_initial_node)
    /\ initialize
    /\ transcription' = transcription \cup {participant}
    /\ Completed("on_first_participant_joined", participant, FALSE, FALSE,
                 <<"set_node", "initialize",
                   "capture_participant_transcription">>)
    /\ Record(JoinEv)
    /\ UNCHANGED <<interview_data, fm_state, ended, pending, lastCall,
                   emitted, task_cancelled, rtvi_push,
                   replaced>>

on_first_participant_joined(participant) ==
    /\ transcription' = transcription \cup {participant}
    /\ initialize
    /\ set_node("initial", create_initial_node)
    /\ Completed("on_first_participant_joined", participant, FALSE, FALSE,
                 <<"capture_participant_transcription", "initialize",
                   "set_node">>)
    /\ Record(JoinEv)
    /\ UNCHANGED <<interview_data, fm_state, ended, pending, lastCall,
                   emitted, task_cancelled, rtvi_push,
                   replaced>>

\* on_participant_left clearing the data once it has printed it.
on_participant_left_ClearsData(participant, reason) ==
    LET data == to_dict(get_interview_data) IN
    /\ emitted' = [source |-> "on_participant_left", data |-> data,
                   printed |-> [name |-> OrNotProvided(data.name),
                                startup_history |->
                                    OrNotProvided(data.startup_history)]]
    /\ interview_data' = NewInterviewData
    /\ cancel
    /\ Completed("on_participant_left", participant, FALSE, TRUE,
                 <<"cancel">>)
    /\ Record(LeftEv)
    /\ UNCHANGED <<fm_initialized, current_node, node_config,
                   registered, fm_state, post_actions, ended, pending,
                   lastCall, transcription, rtvi_push,
                   replaced>>

on_participant_left(participant, reason) ==
    LET data == to_dict(get_interview_data) IN
    /\ IF {"name", "startup_history"} \subseteq DOMAIN data
       THEN /\ emitted' = [source |-> "on_participant_left", data |-> data,
                           printed |-> [name |-> OrNotProvided(data.name),
                                        startup_history |->
                                            OrNotProvided(data.startup_history)]]
            /\ cancel
            /\ Completed("on_participant_left", participant, FALSE, TRUE,
                         <<"cancel">>)
       ELSE /\ lastEvent' = [handler |-> "on_participant_left",
                             arg |-> participant, outcome |-> "raised",
                             warned |-> FALSE, cancel_called |-> FALSE,
                             calls |-> <<>>]
            /\ UNCHANGED <<emitted, task_cancelled>>
    /\ Record(LeftEv)
    /\ UNCHANGED <<interview_data, fm_initialized, current_node, node_config,
                   registered, fm_state, post_actions, ended, pending,
                   lastCall, transcription, rtvi_push,
                   replaced>>

\* on_error with task.cancel() inside the "AlreadyInCall" branch.
on_error_CancelInsideIf(error) ==
    /\ IF error \in AlreadyInCallErrors
       THEN cancel /\ Completed("on_error", error, TRUE, TRUE, <<"cancel">>)
       ELSE /\ UNCHANGED task_cancelled
            /\ Completed("on_error", error, FALSE, FALSE, <<>>)
    /\ Record(ErrorEv)
    /\ UNCHANGED <<interview_data, fm_initialized, current_node, node_config,
                   registered, fm_state, post_actions, ended, pending,
                   lastCall, emitted, transcription, rtvi_push,
                   replaced>>

on_error(error) ==
    /\ cancel
    /\ Completed("on_error", error, error \in AlreadyInCallErrors, TRUE,
                 <<"cancel">>)
    /\ Record(ErrorEv)
    /\ UNCHANGED <<interview_data, fm_initialized, current_node, node_config,
                   registered, fm_state, post_actions, ended, pending,
                   lastCall, emitted, transcription, rtvi_push,
                   replaced>>

----
Init ==
    /\ interview_data = NewInterviewData
    /\ fm_initialized = FALSE
    /\ current_node = "none"
    /\ node_config = NoConfig
    /\ registered = {}
    /\ fm_state = [name |-> Absent, startup_history |-> Absent]
    /\ post_actions = <<>>
    /\ ended = FALSE
    /\ pending = NoCall
    /\ lastCall = NoCall
    /\ lastEvent = NoEvent
    /\ emitted = NoData
    /\ transcription = {}
    /\ task_cancelled = FALSE
    /\ run = <<>>
    /\ rtvi_push = NoPush
    /\ replaced = NoData

Next ==
    \/ \E p \in Participants : on_first_participant_joined(p)
    \/ \E fn \in FunctionNames, args \in ArgsSet : FunctionCalled(fn, args)
    \/ Transition
    \/ PostAction
    \/ \E p \in Participants, r \in Reasons : on_participant_left(p, r)
    \/ \E e \in Errors : on_error(e)

Spec == Init /\ [][Next]_vars

\* The runtime's own steps are not held back for ever: a result a handler
\* has returned is handed to its transition callback, and a post-action
\* queued by the active node is executed.  Events and function calls come
\* from outside and carry no such promise.
SpecFair == Spec /\ WF_vars(Transition) /\ WF_vars(PostAction)

----
\* A process that hosts one session after another: once a session is over
\* (cancelled or ended) the next is set up with a new FlowManager, a new
\* PipelineTask and new EventHandlers.  Nothing in the set-up calls
\* reset_interview_data, so the module-global interview_data is the one
\* the last session wrote.
setup_event_handlers ==
    /\ task_cancelled \/ ended
    /\ fm_initialized' = FALSE
    /\ current_node' = "none"
    /\ node_config' = NoConfig
    /\ registered' = {}
    /\ fm_state' = [name |-> Absent, startup_history |-> Absent]
    /\ post_actions' = <<>>
    /\ ended' = FALSE
    /\ pending' = NoCall
    /\ lastCall' = NoCall
    /\ lastEvent' = NoEvent
    /\ emitted' = NoData
    /\ transcription' = {}
    /\ task_cancelled' = FALSE
    /\ run' = <<>>
    /\ UNCHANGED <<interview_data, rtvi_push, replaced>>

NextSessions == Next \/ setup_event_handlers

SpecSessions == Init /\ [][NextSessions]_vars

----
\* reset_interview_data binds the module global to a new InterviewData.
\* The instance it named until then keeps its fields, for whoever took it
\* from get_interview_data before; the handlers and get_interview_data
\* read the global at each call.  Nothing in the repository calls
\* reset_interview_data; here the host of the sessions may call it at any
\* time.
reset_interview_data ==
    /\ replaced' = interview_data
    /\ interview_data' = NewInterviewData
    /\ UNCHANGED <<fm_initialized, current_node, node_config, registered,
                   fm_state, post_actions, ended, pending, lastCall,
                   lastEvent, emitted, transcription, task_cancelled, run,
                   rtvi_push>>

\* A session as on_first_participant_joined leaves it: the flow manager
\* initialized and the initial node set, nothing collected yet.
InitReset ==
    /\ interview_data = NewInterviewData
    /\ fm_initialized = TRUE
    /\ current_node = "initial"
    /\ node_config = create_initial_node
    /\ registered = Declared(create_initial_node)
    /\ fm_state = [name |-> Absent, startup_history |-> Absent]
    /\ post_actions = <<>>
    /\ ended = FALSE
    /\ pending = NoCall
    /\ lastCall = NoCall
    /\ lastEvent = [handler |-> "on_first_participant_joined", arg |-> "p1",
                    outcome |-> "completed", warned |-> FALSE,
                    cancel_called |-> FALSE,
                    calls |-> <<"capture_participant_transcription",
                                "initialize", "set_node">>]
    /\ emitted = NoData
    /\ transcription = {"p1"}
    /\ task_cancelled = FALSE
    /\ run = <<JoinEv>>
    /\ rtvi_push = NoPush
    /\ replaced = NoData

NextReset ==
    \/ \E fn \in FunctionNames, args \in ArgsSet : FunctionCalled(fn, args)
    \/ Transition
    \/ reset_interview_data

SpecReset == InitReset /\ [][NextReset]_vars

----
\* src/main.py: the same flow with every handler pushing what it collected
\* to the RTVI observer.  The module has its own interview_data global and
\* its own node factories, handlers and callbacks; the variables below
\* stand for that module's state in SpecRTVI.

\* push_rtvi_data.  data is the module's interview_data as the handler has
\* just left it; delivered is whether task.queue_frame accepts the frame
\* or raises.  Any Exception is caught and logged.  The payload's
\* timestamp (the event loop's clock) is left out.
push_rtvi_data_NoTry(function_name, result, args, node, data, delivered) ==
    [function |-> function_name,
     frame |-> IF delivered
               THEN [type |-> "data_collected",
                     function |-> function_name,
                     node |-> IF Truthy(node) THEN node ELSE current_node,
                     data |-> [result |-> result, args |-> args,
                               interview_data |-> to_dict(data)]]
               ELSE NoFrame,
     logged |-> IF delivered THEN "info: pushed" ELSE "",
     raised |-> ~delivered]

push_rtvi_data(function_name, result, args, node, data, delivered) ==
    [function |-> function_name,
     frame |-> IF delivered
               THEN [type |-> "data_collected",
                     function |-> function_name,
                     node |-> IF Truthy(node) THEN node ELSE current_node,
                     data |-> [result |-> result, args |-> args,
                               interview_data |-> to_dict(data)]]
               ELSE NoFrame,
     logged |-> IF delivered THEN "info: pushed" ELSE "error: failed to push",
     raised |-> FALSE]

\* What a handler of main.py does with the arguments: the data it leaves,
\* the result it returns or the error it raises, and its push.
HandlerReturns(data, result, push) ==
    [data |-> data,
     outcome |-> IF push.raised THEN "raised" ELSE "returned",
     result |-> IF push.raised THEN NoResult ELSE result,
     error |-> IF push.raised THEN "Exception" ELSE "",
     push |-> push]

HandlerRaises(error) ==
    [data |-> interview_data, outcome |-> "raised", result |-> NoResult,
     error |-> error, push |-> rtvi_push]

main_collect_name(args, delivered) ==
    IF "name" \in DOMAIN args
    THEN LET data == [interview_data EXCEPT !.name = args.name]
             result == [name |-> args.name]
         IN HandlerReturns(data, result,
                push_rtvi_data("collect_name", result, args, "initial",
                               data, delivered))
    ELSE HandlerRaises("KeyError")

main_collect_startup_history(args, delivered) ==
    IF "startup_history" \in DOMAIN args
    THEN LET data == [interview_data EXCEPT
                          !.startup_history = args.startup_history]
             result == [startup_history |-> args.startup_history]
         IN HandlerReturns(data, result,
                push_rtvi_data("collect_startup_history", result, args,
                               "startup_history", data, delivered))
    ELSE HandlerRaises("KeyError")

main_end_call(args, delivered) ==
    LET result == [status |-> "completed"]
    IN HandlerReturns(interview_data, result,
           push_rtvi_data("end_call", result, args, "summary",
                          interview_data, delivered))

main_handler(fn, args, delivered) ==
    CASE fn = "collect_name" -> main_collect_name(args, delivered)
      [] fn = "collect_startup_history" ->
             main_collect_startup_history(args, delivered)
      [] fn = "end_call" -> main_end_call(args, delivered)

\* The runtime calls a handler of main.py; task.queue_frame accepts the
\* frame or raises.
MainFunctionCalled(fn, args, delivered) ==
    LET h == main_handler(fn, args, delivered) IN
    /\ fn \in registered
    /\ pending = NoCall
    /\ interview_data' = h.data
    /\ rtvi_push' = h.push
    /\ IF h.outcome = "returned"
       THEN Returned(fn, args, h.result)
       ELSE Raised(fn, args, h.error)
    /\ emitted' = IF fn = "end_call"
                  THEN [source |-> "end_call",
                        data |-> to_dict(interview_data),
                        printed |->
                            [name |-> OrNotProvided(interview_data.name),
                             startup_history |->
                                 OrNotProvided(interview_data.startup_history)]]
                  ELSE emitted
    /\ Record(CallEv(fn, args))
    /\ UNCHANGED <<fm_initialized, current_node, node_config, registered,
                   fm_state, post_actions, ended, lastEvent, transcription,
                   task_cancelled, replaced>>

main_create_initial_node ==
    [role_messages |-> <<"friendly interviewer, speech-safe responses">>,
     task_messages |-> <<"greet the user and ask for their name">>,
     functions |-> <<[name |-> "collect_name",
                      handler |-> "main.collect_name",
                      required |-> <<"name">>,
                      transition_callback |-> "main.handle_name_collection"]>>,
     post_actions |-> <<>>]

main_create_startup_history_node ==
    [role_messages |-> <<>>,
     task_messages |-> <<"ask about their startup history">>,
     functions |-> <<[name |-> "collect_startup_history",
                      handler |-> "main.collect_startup_history",
                      required |-> <<"startup_history">>,
                      transition_callback |->
                          "main.handle_startup_history_collection"]>>,
     post_actions |-> <<>>]

main_create_summary_node ==
    [role_messages |-> <<>>,
     task_messages |-> <<"thank the user, summarize, ask for anything to add">>,
     functions |-> <<[name |-> "end_call",
                      handler |-> "main.end_call",
                      required |-> <<>>,
                      transition_callback |-> "main.handle_end_call"]>>,
     post_actions |-> <<>>]

main_create_end_node ==
    [role_messages |-> <<>>,
     task_messages |-> <<"final thank you, information has been recorded">>,
     functions |-> <<>>,
     post_actions |-> <<"end_conversation">>]

main_handle_name_collection(args, result) ==
    /\ fm_state' = [fm_state EXCEPT !.name = result.name]
    /\ set_node("startup_history", main_create_startup_history_node)

main_handle_startup_history_collection(args, result) ==
    /\ fm_state' = [fm_state EXCEPT !.startup_history = result.startup_history]
    /\ set_node("summary", main_create_summary_node)

main_handle_end_call(args, result) ==
    /\ fm_state' = fm_state
    /\ set_node("end", main_create_end_node)

MainTransition ==
    /\ pending # NoCall
    /\ CASE pending.fn = "collect_name" ->
                main_handle_name_collection(pending.args, pending.result)
         [] pending.fn = "collect_startup_history" ->
                main_handle_startup_history_collection(pending.args,
                                                       pending.result)
         [] pending.fn = "end_call" ->
                main_handle_end_call(pending.args, pending.result)
    /\ pending' = NoCall
    /\ Record(TransitionEv)
    /\ UNCHANGED <<interview_data, fm_initialized, ended, lastCall, lastEvent,
                   emitted, transcription, task_cancelled, rtvi_push,
                   replaced>>

\* The flow manager initialized and main.py's initial node set.
InitRTVI ==
    /\ interview_data = NewInterviewData
    /\ fm_initialized = TRUE
    /\ current_node = "initial"
    /\ node_config = main_create_initial_node
    /\ registered = Declared(main_create_initial_node)
    /\ fm_state = [name |-> Absent, startup_history |-> Absent]
    /\ post_actions = <<>>
    /\ ended = FALSE
    /\ pending = NoCall
    /\ lastCall = NoCall
    /\ lastEvent = NoEvent
    /\ emitted = NoData
    /\ transcription = {}
    /\ task_cancelled = FALSE
    /\ run = <<JoinEv>>
    /\ rtvi_push = NoPush
    /\ replaced = NoData

NextRTVI ==
    \/ \E fn \in FunctionNames, args \in ArgsSet, delivered \in BOOLEAN :
           MainFunctionCalled(fn, args, delivered)
    \/ MainTransition
    \/ PostAction

SpecRTVI == InitRTVI /\ [][NextRTVI]_vars

----
\* Claims

\* An argument dictionary that lacks the key or holds the empty string.
MissingOrEmpty(args, key) == key \notin DOMAIN args \/ args[key] = ""

\* C1: every run join -> collect_name(n) -> collect_startup_history(h) ->
\* end_call with non-empty n and h, each call followed by its transition
\* callback, ends with the current node "end", the interview data equal to
\* {name: n, startup_history: h} and is_complete() true.
C1_InterviewCompletes ==
    \A n \in NonEmpty, h \in NonEmpty :
        run = InterviewRun(n, h) =>
            /\ current_node = "end"
            /\ to_dict(interview_data) = [name |-> n, startup_history |-> h]
            /\ is_complete(interview_data)

C1_Witness ==
    /\ run = InterviewRun("1", "2")
    /\ lastCall.fn = "end_call"
    /\ pending = NoCall

\* C2: collect_name called on the initial node with an empty or missing
\* name fails: the call raises, the name is not written and no transition
\* callback follows (the current node stays "initial").
C2_EmptyNameRejected ==
    [][\A args \in ArgsSet :
          (/\ FunctionCalled("collect_name", args)
           /\ current_node = "initial"
           /\ MissingOrEmpty(args, "name"))
          => /\ lastCall'.outcome = "raised"
             /\ interview_data'.name = interview_data.name
             /\ pending' = NoCall]_vars

\* C3: collect_startup_history called on the startup_history node with an
\* empty or missing startup_history fails: the call raises, the history is
\* not written, no transition callback follows and the node stays active.
C3_EmptyHistoryRejected ==
    [][\A args \in ArgsSet :
          (/\ FunctionCalled("collect_startup_history", args)
           /\ current_node = "startup_history"
           /\ MissingOrEmpty(args, "startup_history"))
          => /\ lastCall'.outcome = "raised"
             /\ interview_data'.startup_history = interview_data.startup_history
             /\ pending' = NoCall
             /\ current_node' = "startup_history"
             /\ "collect_startup_history" \in Declared(node_config')]_vars

\* C4: a call of a function the current node does not declare fails: the
\* call raises, and the current node and the interview data are unchanged
\* (no write, no transition callback).
C4_UndeclaredCallRejected ==
    [][\A fn \in FunctionNames, args \in ArgsSet :
          (/\ FunctionCalled(fn, args)
           /\ fn \notin Declared(node_config))
          => /\ lastCall'.outcome = "raised"
             /\ interview_data' = interview_data
             /\ current_node' = current_node
             /\ pending' = NoCall]_vars

\* C5: once the end node's end_conversation post-action has fired the
\* session stays ended, and every later function call fails: it raises and
\* changes neither the current node nor the interview data.
C5_ClosedAfterEnd ==
    [][/\ ended => ended'
       /\ \A fn \in FunctionNames, args \in ArgsSet :
             (ended /\ FunctionCalled(fn, args))
             => /\ lastCall'.outcome = "raised"
                /\ interview_data' = interview_data
                /\ current_node' = current_node
                /\ pending' = NoCall]_vars

\* C6: initialize() on an initialized flow manager fails (the join handler
\* that calls it raises) and the current node is unchanged.
C6_SecondInitializeFails ==
    [][\A p \in Participants :
          (fm_initialized /\ on_first_participant_joined(p))
          => /\ lastEvent'.outcome = "raised"
             /\ current_node' = current_node]_vars

\* C7: a participant-joined event that arrives after the flow has advanced
\* past the initial node does not set the current node back to "initial".
C7_SecondJoinKeepsNode ==
    [][\A p \in Participants :
          (/\ current_node \in {"startup_history", "summary", "end"}
           /\ on_first_participant_joined(p))
          => current_node' # "initial"]_vars

\* C8: on_participant_left, at any node and whatever fields are set,
\* completes without raising, emits a snapshot that holds each field's
\* string (the empty string for a field not collected, never an absent
\* value) and signals the pipeline task to cancel.
C8_LeftEmitsAndCancels ==
    [][\A p \in Participants, r \in Reasons :
          on_participant_left(p, r)
          => /\ lastEvent'.outcome = "completed"
             /\ emitted'.source = "on_participant_left"
             /\ DOMAIN emitted'.data = {"name", "startup_history"}
             /\ emitted'.data.name = interview_data.name
             /\ emitted'.data.startup_history = interview_data.startup_history
             /\ emitted'.data.name \in Strings
             /\ emitted'.data.startup_history \in Strings
             /\ (lastCall = NoCall =>
                    emitted'.data = [name |-> "", startup_history |-> ""])
             /\ task_cancelled'
             /\ lastEvent'.cancel_called]_vars

\* Participant left before any join: nothing collected, no node active.
C8_Witness ==
    /\ lastEvent.handler = "on_participant_left"
    /\ current_node = "none"
    /\ emitted.source = "on_participant_left"
    /\ emitted.data = [name |-> "", startup_history |-> ""]
    /\ task_cancelled

\* C9: every cancellation, by on_participant_left or by on_error, emits
\* the snapshot of the interview data as the handlers have written it.
C9_SnapshotOnEveryCancel ==
    [][/\ \A p \in Participants, r \in Reasons :
             on_participant_left(p, r)
             => /\ emitted'.source = "on_participant_left"
                /\ emitted'.data = to_dict(interview_data)
       /\ \A e \in Errors :
             on_error(e)
             => /\ emitted'.source = "on_error"
                /\ emitted'.data = to_dict(interview_data)]_vars

\* C10: on_error signals the pipeline task to cancel for every error,
\* whether or not it holds "AlreadyInCall", and completes without raising.
C10_ErrorAlwaysCancels ==
    [][\A e \in Errors :
          on_error(e)
          => /\ task_cancelled'
             /\ lastEvent'.cancel_called
             /\ lastEvent'.outcome = "completed"
             /\ lastEvent'.warned = (e \in AlreadyInCallErrors)]_vars

\* An error that is not "AlreadyInCall" has cancelled the task.
C10_Witness ==
    /\ lastEvent.handler = "on_error"
    /\ lastEvent.arg \notin AlreadyInCallErrors
    /\ ~lastEvent.warned
    /\ task_cancelled

\* The node that follows a node in the graph the callbacks lay out.
Successor(node) ==
    CASE node = "none" -> "initial"
      [] node = "initial" -> "startup_history"
      [] node = "startup_history" -> "summary"
      [] node = "summary" -> "end"
      [] OTHER -> "<no successor>"

\* C13: transitions are strictly forward and linear: every activation of a
\* node (by the join handler or by a transition callback) activates the
\* successor of the current node, so the activated nodes are a prefix of
\* initial, startup_history, summary, end with no node activated twice.
C13_ForwardLinear ==
    [][(Transition \/ \E p \in Participants : on_first_participant_joined(p))
       => current_node' = Successor(current_node)]_vars

\* C14: end_call returns status "completed" and leaves the interview data
\* as it was, whether or not the fields are set.
C14_EndCallFrame ==
    [][(/\ lastCall' # NoCall
        /\ lastCall'.fn = "end_call"
        /\ pending = NoCall
        /\ FunctionCalled("end_call", lastCall'.args))
          => /\ lastCall'.outcome = "returned"
             /\ lastCall'.result = [status |-> "completed"]
             /\ interview_data' = interview_data]_vars

\* end_call has returned with the name set and the history not set.
C14_Witness ==
    /\ lastCall.fn = "end_call"
    /\ lastCall.outcome = "returned"
    /\ pending # NoCall
    /\ interview_data.name # ""
    /\ interview_data.startup_history = ""

\* C16: is_complete() is true if and only if both name and startup_history
\* are non-empty, for each of the four combinations of set and unset fields.
C16_IsCompleteIff ==
    is_complete(interview_data)
        <=> (interview_data.name # "" /\ interview_data.startup_history # "")

\* The history is set and the name is not: not complete.
C16_Witness ==
    /\ interview_data.name = ""
    /\ interview_data.startup_history # ""
    /\ ~is_complete(interview_data)

\* The previous function call was fn and it returned.
Reinvoked(fn) == lastCall.fn = fn /\ lastCall.outcome = "returned"

\* C18: a collection handler called again overwrites: collect_name(b) right
\* after collect_name(a) leaves name = b and the history as it was, and
\* when b = a the interview data is the same as after the first call;
\* likewise for collect_startup_history.
C18_Overwrite ==
    [][lastCall' # NoCall =>
       LET args == lastCall'.args IN
          /\ (/\ Reinvoked("collect_name")
              /\ "name" \in DOMAIN args
              /\ FunctionCalled("collect_name", args))
             => /\ interview_data'.name = args.name
                /\ interview_data'.startup_history = interview_data.startup_history
                /\ (args = lastCall.args => interview_data' = interview_data)
          /\ (/\ Reinvoked("collect_startup_history")
              /\ "startup_history" \in DOMAIN args
              /\ FunctionCalled("collect_startup_history", args))
             => /\ interview_data'.startup_history = args.startup_history
                /\ interview_data'.name = interview_data.name
                /\ (args = lastCall.args => interview_data' = interview_data)]_vars

\* collect_name("2") has run after collect_name("1"), whose callback had
\* mirrored "1" into flow_manager.state.
C18_Witness ==
    /\ lastCall.fn = "collect_name"
    /\ lastCall.args = [name |-> "2"]
    /\ fm_state.name = "1"
    /\ interview_data.name = "2"

\* C17: once on_participant_left or on_error has called task.cancel(), no
\* transition callback activates a node any more, also when the signal
\* came between a handler and its transition callback.
C17_NoActivationAfterCancel ==
    [][task_cancelled => ~Transition]_vars

\* C19: the callbacks mirror the result into flow_manager.state before
\* they activate the next node, so at startup_history or later the state's
\* name equals the interview data's name, and at summary or later the
\* state's startup_history equals the interview data's startup_history.
C19_StateMirrorsData ==
    /\ current_node \in {"startup_history", "summary", "end"}
          => fm_state.name = interview_data.name
    /\ current_node \in {"summary", "end"}
          => fm_state.startup_history = interview_data.startup_history

\* C12: the interview data is empty when a session's flow is started by
\* its join event, whatever an earlier session of the process collected.
C12_EmptyAtSessionStart ==
    [][\A p \in Participants :
          (~fm_initialized /\ on_first_participant_joined(p))
          => interview_data' = NewInterviewData]_vars

\* C11: a failure to deliver the event to the observer never propagates:
\* the handler returns the result, writes the data and hands on to the
\* transition callback exactly as it does when the delivery succeeds.
C11_PushFailureSwallowed ==
    [][(/\ lastCall' # NoCall
        /\ pending = NoCall
        /\ MainFunctionCalled(lastCall'.fn, lastCall'.args, FALSE))
       => LET fn == lastCall'.fn
              args == lastCall'.args
              ok == main_handler(fn, args, TRUE)
          IN /\ interview_data' = ok.data
             /\ lastCall'.outcome = ok.outcome
             /\ lastCall'.result = ok.result
             /\ lastCall'.error = ok.error
             /\ pending' = IF ok.outcome = "returned"
                           THEN [fn |-> fn, args |-> args, result |-> ok.result]
                           ELSE NoCall]_vars

\* collect_name has returned its result although the frame was not queued.
C11_Witness ==
    /\ rtvi_push # NoPush
    /\ rtvi_push.function = "collect_name"
    /\ rtvi_push.frame = NoFrame
    /\ lastCall.fn = "collect_name"
    /\ lastCall.outcome = "returned"
    /\ pending # NoCall
    /\ interview_data.name = "1"

\* C20: every frame a handler queues is built after the handler has written
\* the data and before the transition: its node field is the flow
\* manager's current node at the call, and its snapshot holds the value
\* just collected.
C20_FrameNodeAndSnapshot ==
    [][\A fn \in FunctionNames, args \in ArgsSet :
          (MainFunctionCalled(fn, args, TRUE) /\ lastCall'.outcome = "returned")
          => /\ rtvi_push'.frame.node = current_node
             /\ current_node' = current_node
             /\ rtvi_push'.frame.data.interview_data = to_dict(interview_data')
             /\ (fn = "collect_name" =>
                    rtvi_push'.frame.data.interview_data.name = args.name)
             /\ (fn = "collect_startup_history" =>
                    rtvi_push'.frame.data.interview_data.startup_history
                        = args.startup_history)]_vars
\* C21: on_first_participant_joined captures the participant's
\* transcription, then initializes the flow manager, then sets the node
\* "initial", in that order; before any join the current node is none, and
\* when the handler has completed the current node is "initial" with
\* collect_name as its only declared function.
C21_JoinOrder ==
    /\ [](~fm_initialized => current_node = "none")
    /\ [][\A p \in Participants :
             on_first_participant_joined(p)
             => /\ lastEvent'.outcome = "completed"
                /\ lastEvent'.calls = <<"capture_participant_transcription",
                                        "initialize", "set_node">>
                /\ p \in transcription'
                /\ fm_initialized'
                /\ current_node' = "initial"
                /\ Declared(node_config') = {"collect_name"}]_vars

\* The first join has completed and nothing else has happened.
C21_Witness ==
    /\ run = <<JoinEv>>
    /\ lastEvent.handler = "on_first_participant_joined"
    /\ lastEvent.calls = <<"capture_participant_transcription",
                           "initialize", "set_node">>
    /\ transcription = {"p1"}
    /\ current_node = "initial"
    /\ Declared(node_config) = {"collect_name"}
\* C22: the callback of an end_call that returned activates the "end"
\* node, which declares no functions and carries the end_conversation
\* post-action; the session then eventually ends, and a post-action ends
\* the session at no other node than "end".
C22_EndTerminates ==
    /\ [][(pending.fn = "end_call" /\ Transition)
             => /\ current_node' = "end"
                /\ Declared(node_config') = {}
                /\ post_actions' = <<"end_conversation">>]_vars
    /\ [][(~ended /\ ended') => current_node = "end"]_vars
    /\ ((current_node = "end" /\ post_actions # <<>>) ~> ended)
\* C23: at the startup_history node or later the name is non-empty, and at
\* the summary node or the end node is_complete() is true.
C23_NodeImpliesData ==
    /\ current_node \in {"startup_history", "summary", "end"}
          => interview_data.name # ""
    /\ current_node \in {"summary", "end"}
          => is_complete(interview_data)
\* C24: on_participant_left and on_error leave the interview data and the
\* flow manager's current node as they were: they read the data and call
\* task.cancel(), nothing else.
C24_CancelHandlersFrame ==
    [][((\E p \in Participants, r \in Reasons : on_participant_left(p, r))
        \/ (\E e \in Errors : on_error(e)))
       => /\ interview_data' = interview_data
          /\ current_node' = current_node
          /\ node_config' = node_config
          /\ fm_state' = fm_state
          /\ task_cancelled']_vars

\* The participant has left and then an error has come, with the name
\* collected and the startup_history node active.
C24_Witness ==
    /\ lastEvent.handler = "on_error"
    /\ emitted # NoData
    /\ emitted.source = "on_participant_left"
    /\ emitted.data.name = "1"
    /\ interview_data.name = "1"
    /\ current_node = "startup_history"
    /\ task_cancelled
\* C25: reset_interview_data leaves get_interview_data() returning a
\* record with both fields empty; every handler write after a reset is
\* visible through get_interview_data(); and the record that was current
\* before the reset keeps the fields it had, whatever is called later.
C25_ResetRebinds ==
    [][/\ reset_interview_data
            => /\ get_interview_data' = NewInterviewData
               /\ replaced' = interview_data
       /\ (replaced # NoData /\ ~reset_interview_data)
            => replaced' = replaced
       /\ (/\ replaced # NoData
           /\ lastCall' # NoCall
           /\ lastCall'.outcome = "returned"
           /\ pending = NoCall
           /\ FunctionCalled(lastCall'.fn, lastCall'.args))
            => /\ lastCall'.fn = "collect_name"
                    => get_interview_data'.name = lastCall'.args.name
               /\ lastCall'.fn = "collect_startup_history"
                    => get_interview_data'.startup_history
                           = lastCall'.args.startup_history]_vars

\* A name collected, the data reset, and another name collected since:
\* the record replaced holds the first name, the current one the second.
C25_Witness ==
    /\ replaced # NoData
    /\ replaced.name = "1"
    /\ get_interview_data.name = "2"
    /\ lastCall.fn = "collect_name"
    /\ lastCall.args = [name |-> "2"]

====
